---- MODULE Spec2Model ----
(***************************************************************************)
(* A model of the rendering pipeline of nib: the data-parallel driver      *)
(* (Renderer::render), the Whitted and Normal integrators, the object-list *)
(* acceleration structure, the materials and the random sampler.           *)
(*                                                                         *)
(* Numbers.  Sampler values are counted in quarters (q stands for q/4, so  *)
(* 0..3 covers [0,1)); vectors built from them are in quarters too.         *)
(* Colours are counted in twentieths (20 is 1.0, 14 is 0.7); attenuations   *)
(* are whole numbers (1 is 1.0).  Distances are counted in units of ETA.    *)
(*                                                                         *)
(* Geometry.  A ray is a token of Rays.  What a primitive answers to a ray  *)
(* (its hit record) is a table of the scene; the ray a camera or a material *)
(* emits is the token given by CameraRay and OutRay.                        *)
(*                                                                         *)
(* Primitives.  Sphere::hit, Triangle::hit and the mirror law are computed  *)
(* exactly on vectors of whole coordinates; a quotient or a square root is  *)
(* kept as the number (r + s sqrt(D)) / den (SpecGeom).                     *)
(*                                                                         *)
(* Single calls.  SpecGeom also runs one call of each sampling primitive,  *)
(* of an exporter, of the construction of the Pinhole camera and of the    *)
(* pixel count of render, each from its arguments to its result.           *)
(***************************************************************************)
EXTENDS Integers, Sequences, FiniteSets, TLC

VARIABLES
  scene,      \* the Renderer: accel/arena, camera, background, spp, integrator, height, width
  nthreads,   \* size of the rayon pool
  claimed,    \* indices of 0..W*H-1 rayon has handed to a worker
  worker,     \* per worker: position in the closure of map_with and its locals
  buffer,     \* the output Vec: per slot the value collected, or Unwritten
  writes,     \* per slot, how many times it was written
  progress,   \* position of the progress bar
  samplers,   \* the sampler instances: 0 is `sampler` of render, w the local of worker w
  done,       \* render has returned Ok(buffer)
  wh,         \* one call of Integrator::render, step by step (SpecRay)
  probe       \* one call of a single function, from its arguments to its result (SpecGeom)

vars == <<scene, nthreads, claimed, worker, buffer, writes, progress, samplers, done, wh, probe>>

\* ---------------------------------------------------------------- bounds
MaxW == 2
MaxH == 2
MaxSpp == 2
MaxThreads == 2
MaxPixels == 4
MaxDepth == 2
NumRays == 3
MaxObjects == 3
MaxDist == 3
MaxCoord == 2
MaxRadius == 2

\* ------------------------------------------------------ program constants
RootSeed == 42
ETA == 1

Rays == 0..(NumRays - 1)

\* ---------------------------------------------------------------- vectors
Zero3 == <<0, 0, 0>>
White == <<20, 20, 20>>
Grey == <<14, 14, 14>>

vadd(a, b) == <<a[1] + b[1], a[2] + b[2], a[3] + b[3]>>
vscale(a, k) == <<a[1] * k, a[2] * k, a[3] * k>>
dot(a, b) == (a[1] * b[1]) + (a[2] * b[2]) + (a[3] * b[3])
magnitude2(a) == dot(a, a)
mul_by_first(a, b) == <<a[1] * b[1], a[1] * b[2], a[1] * b[3]>>

mul_element_wise(a, b) == <<a[1] * b[1], a[2] * b[2], a[3] * b[3]>>

\* ---------------------------------------------------------------- sampler
\* Output tables of the generator, in quarters.  Each has period 5, so that
\* draws taken two or three at a time meet every alignment, and each holds
\* a triple without 0 and a pair (3,3): the rejection loops below end.
PatternTable ==
  << <<0, 1, 2, 3, 3>>, <<3, 3, 2, 1, 3>>, <<2, 3, 3, 0, 1>> >>

\* self.prng.gen(): the value at position pos of the stream of `seed`
gen(seed, pos) ==
  LET p == PatternTable[(seed % Len(PatternTable)) + 1]
  IN  p[(pos % Len(p)) + 1]

with_seed(seed) == [seed |-> seed, pos |-> 0]

Random_unseeded == with_seed(0)

Random_default == with_seed(RootSeed)

\* Sampler::next(dimensions): the values and the advanced sampler
sampler_next(s, k) ==
  [vals    |-> [j \in 1..k |-> gen(s.seed, s.pos + (j - 1))],
   sampler |-> [s EXCEPT !.pos = @ + k]]

\* one candidate, kept whatever its length
sphere_loop_once(v, s, tries) ==
  LET d == sampler_next(s, 3)
  IN  [v |-> <<(2 * d.vals[1]) - 4, (2 * d.vals[2]) - 4, (2 * d.vals[3]) - 4>>,
       sampler |-> d.sampler, tries |-> tries + 1]

\* the loop of sample_unit_sphere: v = 2u - 1, repeated while |v|^2 >= 1
RECURSIVE sphere_loop(_, _, _)
sphere_loop(v, s, tries) ==
  IF magnitude2(v) >= 16
  THEN LET d == sampler_next(s, 3)
       IN  sphere_loop(<<(2 * d.vals[1]) - 4, (2 * d.vals[2]) - 4, (2 * d.vals[3]) - 4>>,
                       d.sampler, tries + 1)
  ELSE [v |-> v, sampler |-> s, tries |-> tries]

sample_unit_sphere(s) == sphere_loop(<<8, 8, 8>>, s, 0)

\* the loop of sample_unit_disk: v = (rs - (1,1,0)) * 2, while |v|^2 >= 1
RECURSIVE disk_loop(_, _, _)
disk_loop(v, s, tries) ==
  IF magnitude2(v) >= 16
  THEN LET d == sampler_next(s, 2)
       IN  disk_loop(<<(d.vals[1] - 4) * 2, (d.vals[2] - 4) * 2, 0>>, d.sampler, tries + 1)
  ELSE [v |-> v, sampler |-> s, tries |-> tries]

sample_unit_disk(s) == disk_loop(<<8, 8, 8>>, s, 0)

\* ------------------------------------------------------- geometry tables
None == [some |-> FALSE]
Some(x) == [some |-> TRUE, rec |-> x]

\* HitRecord: distance, unit normal, and d.n of the unit ray direction
\* against the normal, in quarters (-4 is head-on from the front)
HitRecord(distance, normal, dn) == [distance |-> distance, normal |-> normal, dn |-> dn]

\* the token of the ray leaving object k when `ray` came in, by the side
\* (0: the mirror direction, 1: any other) the outgoing direction takes
OutRay(k, ray, side) == (ray + k + side) % NumRays

\* normalize(direction).y of a ray token: -1, 0 or 1
DirY(ray) == (ray % 3) - 1

\* the side of a direction perturbed by the sample v
SideOf(v) == IF v[1] < 0 THEN 1 ELSE 0

\* ------------------------------------------------------------- materials
Diffuse(albedo) == [kind |-> "Diffuse", albedo |-> albedo]
Mirror(perturbation, albedo) ==
  [kind |-> "Mirror", perturbation |-> perturbation, albedo |-> albedo]
\* the refraction index is the fraction en/ed
Dielectric(en, ed, albedo) ==
  [kind |-> "Dielectric", en |-> en, ed |-> ed, albedo |-> albedo]

BSDFRecord(out, attenuation, s) == [out |-> out, attenuation |-> attenuation, sampler |-> s]

\* Diffuse::scatter: direction normal + sample_unit_sphere, attenuation albedo
Diffuse_scatter(m, k, s, ray, hit) ==
  LET sp == sample_unit_sphere(s)
  IN  BSDFRecord(OutRay(k, ray, SideOf(sp.v)), m.albedo, sp.sampler)

\* Mirror::scatter: n.direction has the sign of n.mirror + perturbation * n.v,
\* and n.mirror = -(d.n) for a unit normal
Mirror_scatter(m, k, s, ray, hit) ==
  LET sp == sample_unit_sphere(s)
      ndir == (0 - hit.dn) + (m.perturbation * dot(hit.normal, sp.v))
      side == IF m.perturbation = 0 THEN 0 ELSE SideOf(sp.v)
  IN  BSDFRecord(OutRay(k, ray, side), IF ndir > 0 THEN m.albedo ELSE Zero3, sp.sampler)

\* refract(v, n, ni_over_nt) is Some: 1 - r^2 (1 - dt^2) > 0 with dt = dn/4, r = rn/rd
refract_some(dn, rn, rd) == (16 * rd * rd) > (rn * rn * (16 - (dn * dn)))

\* r < schlick(cosine, eta) for r = q/4, cosine = cn/cd (cd > 0), eta = en/ed:
\* R0 = ((1 - eta)/(1 + eta))^2, R = R0 + (1 - R0)(1 - cosine)^5
schlick_above(q, cn, cd, en, ed) ==
  LET r0n == (ed - en) * (ed - en)
      r0d == (ed + en) * (ed + en)
      x == cd - cn
      x5n == x * x * x * x * x
      x5d == cd * cd * cd * cd * cd
  IN  (q * r0d * x5d) < (4 * ((r0n * x5d) + ((r0d - r0n) * x5n)))

\* Dielectric::scatter
Dielectric_scatter(m, k, s, ray, hit) ==
  LET exiting == hit.dn > 0
      rn == IF exiting THEN m.en ELSE m.ed
      rd == IF exiting THEN m.ed ELSE m.en
      cn == IF exiting THEN m.en * hit.dn ELSE 0 - (m.en * hit.dn)
      cd == 4 * m.ed
      d == sampler_next(s, 1)
  IN  IF refract_some(hit.dn, rn, rd)
      THEN BSDFRecord(OutRay(k, ray, IF schlick_above(d.vals[1], cn, cd, m.en, m.ed) THEN 0 ELSE 1),
                      <<1, 1, 1>>, d.sampler)
      ELSE BSDFRecord(OutRay(k, ray, 0), <<1, 1, 1>>, s)

\* BSDF::scatter of the material of object k
scatter(m, k, s, ray, hit) ==
  CASE m.kind = "Diffuse" -> Diffuse_scatter(m, k, s, ray, hit)
    [] m.kind = "Mirror" -> Mirror_scatter(m, k, s, ray, hit)
    [] m.kind = "Dielectric" -> Dielectric_scatter(m, k, s, ray, hit)

\* ------------------------------------------------------------------ accel
Textured(hit, mat) == [hit |-> hit, mat |-> mat]

collision_unfiltered(objects, ray) ==
  LET inter == {k \in 1..Len(objects) : objects[k].hit[ray].some}
      first == CHOOSE k \in inter :
                 \A j \in inter :
                   \/ objects[k].hit[ray].rec.distance < objects[j].hit[ray].rec.distance
                   \/ /\ objects[k].hit[ray].rec.distance = objects[j].hit[ray].rec.distance
                      /\ k <= j
  IN  IF inter = {} THEN None
      ELSE Some([hit_record |-> objects[first].hit[ray].rec, object |-> first])

\* ObjectList::collision: the hits at distance >= ETA, sorted by distance,
\* first one.  This is the call on a slice of hits short enough for
\* sort_unstable_by to sort it by insertion, which keeps equal keys in arena
\* order (see collision_outcomes for the longer slices).
collision(objects, ray) ==
  LET inter == {k \in 1..Len(objects) :
                  /\ objects[k].hit[ray].some
                  /\ objects[k].hit[ray].rec.distance >= ETA}
      first == CHOOSE k \in inter :
                 \A j \in inter :
                   \/ objects[k].hit[ray].rec.distance < objects[j].hit[ray].rec.distance
                   \/ /\ objects[k].hit[ray].rec.distance = objects[j].hit[ray].rec.distance
                      /\ k <= j
  IN  IF inter = {} THEN None
      ELSE Some([hit_record |-> objects[first].hit[ray].rec, object |-> first])

\* sort_unstable_by sorts a slice of n elements by insertion, and so keeps
\* the order of equal keys, when n is at most 20; on a longer slice the
\* order in which it leaves equal keys is not specified
insertion_sorted(n) == n <= 20

\* what a call of ObjectList::collision may return: on a long slice of hits
\* any of the hits of least distance may be the first after the sort
collision_outcomes(objects, ray) ==
  LET inter == {k \in 1..Len(objects) :
                  /\ objects[k].hit[ray].some
                  /\ objects[k].hit[ray].rec.distance >= ETA}
      closest == {k \in inter :
                    \A j \in inter :
                      objects[k].hit[ray].rec.distance <= objects[j].hit[ray].rec.distance}
  IN  IF insertion_sorted(Cardinality(inter)) THEN {collision(objects, ray)}
      ELSE {Some([hit_record |-> objects[k].hit[ray].rec, object |-> k]) : k \in closest}

\* ----------------------------------------------------------------- camera
\* the token of the primary ray through u = un/(4W), v = vn/(4H), its origin
\* shifted (1) or not (0) on the lens
CameraRay(un, vn, shifted) == (un + vn + shifted) % NumRays

\* Camera::to_ray
to_ray(camera, un, vn, s) ==
  IF camera.kind = "ThinLens"
  THEN LET rd == sample_unit_disk(s)
           off == vscale(rd.v, camera.lens_radius)
       IN  [ray |-> CameraRay(un, vn, IF off = Zero3 THEN 0 ELSE 1), sampler |-> rd.sampler]
  ELSE [ray |-> CameraRay(un, vn, 0), sampler |-> s]

\* ------------------------------------------------------------ integrators
\* the gradient of Whitted::render_helper: white (1 - t) + grey t, t = (y + 1)/2
gradient(ray) ==
  LET t2 == DirY(ray) + 1
  IN  <<((White[1] * (2 - t2)) + (Grey[1] * t2)) \div 2,
        ((White[2] * (2 - t2)) + (Grey[2] * t2)) \div 2,
        ((White[3] * (2 - t2)) + (Grey[3] * t2)) \div 2>>

Normal_render_jittered(sc, ray, s) ==
  LET c == collision(sc.objects, ray)
      d == sampler_next(s, 1)
  IN  IF c.some
      THEN LET n == c.rec.hit_record.normal
           IN  [color |-> <<(10 * n[1]) + 10, (10 * n[2]) + 10, (10 * n[3]) + 10>>,
                sampler |-> d.sampler, queries |-> 1, scatters |-> 0]
      ELSE [color |-> sc.background, sampler |-> d.sampler, queries |-> 1, scatters |-> 0]

\* Normal::render
Normal_render(sc, ray, s) ==
  LET c == collision(sc.objects, ray)
  IN  IF c.some
      THEN LET n == c.rec.hit_record.normal
           IN  [color |-> <<(10 * n[1]) + 10, (10 * n[2]) + 10, (10 * n[3]) + 10>>,
                sampler |-> s, queries |-> 1, scatters |-> 0]
      ELSE [color |-> sc.background, sampler |-> s, queries |-> 1, scatters |-> 0]

\* the recursion cutoff of render_helper
cutoff_off_by_one(depth, max_depth) == depth > max_depth

cutoff_never(depth, max_depth) == FALSE

cutoff(depth, max_depth) == depth >= max_depth

\* Whitted::render_helper
RECURSIVE render_helper(_, _, _, _)
render_helper(sc, ray, s, depth) ==
  LET c == collision(sc.objects, ray)
  IN  IF c.some
      THEN IF cutoff(depth, sc.integrator.max_depth)
           THEN [color |-> sc.background, sampler |-> s, queries |-> 1, scatters |-> 0]
           ELSE LET b == scatter(sc.objects[c.rec.object].mat, c.rec.object, s, ray,
                                 c.rec.hit_record)
                    r == render_helper(sc, b.out, b.sampler, depth + 1)
                IN  [color |-> mul_element_wise(b.attenuation, r.color),
                     sampler |-> r.sampler,
                     queries |-> r.queries + 1, scatters |-> r.scatters + 1]
      ELSE [color |-> gradient(ray), sampler |-> s, queries |-> 1, scatters |-> 0]

\* Integrator::render
integrator_render(sc, ray, s) ==
  IF sc.integrator.kind = "Normal"
  THEN Normal_render(sc, ray, s)
  ELSE render_helper(sc, ray, s, 0)

\* ----------------------------------------------------------------- scenes
HeadOn(distance, normal) == Some(HitRecord(distance, normal, 0 - 4))

\* two mirrors facing each other: every ray hits, the nearer one alternating
ArenaMirrors ==
  << Textured([r \in Rays |-> HeadOn(2 + (r % 2), <<0, 1, 0>>)], Mirror(0, <<1, 2, 1>>)),
     Textured([r \in Rays |-> HeadOn(3 - (r % 2), <<0, 0 - 1, 0>>)], Mirror(0, <<2, 1, 1>>)) >>

\* a matte, a glass and a rough mirror; rays of token 2 (mod 3) only graze
ArenaMixed ==
  << Textured([r \in Rays |-> IF r % 3 = 0 THEN Some(HitRecord(2, <<0, 0, 1>>, 0 - 2))
                              ELSE None],
              Diffuse(<<1, 0, 1>>)),
     Textured([r \in Rays |-> CASE r % 3 = 0 -> Some(HitRecord(5, <<1, 0, 0>>, 0 - 4))
                                [] r % 3 = 1 -> Some(HitRecord(3, <<1, 0, 0>>, 4))
                                [] OTHER -> None],
              Dielectric(3, 2, <<0, 1, 1>>)),
     Textured([r \in Rays |-> CASE r % 3 = 1 -> Some(HitRecord(4, <<0, 1, 0>>, 0 - 2))
                                [] r % 3 = 2 -> Some(HitRecord(0, <<0, 1, 0>>, 0 - 2))
                                [] OTHER -> None],
              Mirror(1, <<1, 1, 2>>)) >>

Pinhole == [kind |-> "Pinhole"]
ThinLens(lens_radius) == [kind |-> "ThinLens", lens_radius |-> lens_radius]

Stages ==
  { [objects |-> <<>>, camera |-> Pinhole, background |-> <<20, 10, 4>>],
    [objects |-> ArenaMirrors, camera |-> ThinLens(1), background |-> <<20, 10, 4>>],
    [objects |-> ArenaMixed, camera |-> Pinhole, background |-> <<10, 20, 0>>] }

Normal == [kind |-> "Normal"]
Whitted(max_depth) == [kind |-> "Whitted", max_depth |-> max_depth]

Integrators == {Normal} \cup {Whitted(d) : d \in 0..MaxDepth}

\* Scene -> ProcessedScene/Renderer
Renderer(st, integrator, spp, height, width) ==
  [objects |-> st.objects, camera |-> st.camera, background |-> st.background,
   samples_per_pixel |-> spp, integrator |-> integrator, height |-> height, width |-> width]

Dims == {d \in (1..MaxH) \X (1..MaxW) : d[1] * d[2] <= MaxPixels}

Scenes ==
  { Renderer(st, g, n, d[1], d[2]) :
      st \in Stages, g \in Integrators, n \in 1..MaxSpp, d \in Dims }

\* ----------------------------------------------------------------- driver
\* self.width * self.height
\* (the extents of Dims multiply to far less than 2^32; render_size keeps
\* the width of the product)
num_pixels(sc) == sc.width * sc.height

Indices == 0..(num_pixels(scene) - 1)
Workers == 1..nthreads

Unwritten == [val |-> <<>>, px |-> 0 - 1]
PixelValue(acc, spp) == [num |-> acc, den |-> spp]

Idle == [pc |-> "idle", i |-> 0, x |-> 0, y |-> 0, s |-> 0, acc |-> Zero3]

shared_sampler(w) == 0

\* the sampler instance the closure of worker w draws from: its local
\* `let mut sampler`
local_sampler(w) == w

sampler_per_thread(w) == with_seed(samplers[0].seed + w)

\* a clone that starts w values into the stream
sampler_of_worker(w) == [samplers[0] EXCEPT !.pos = @ + w]

\* sampler_generator(): a clone of `sampler` of render
sampler_generator(w) == samplers[0]

collect_slot_by_column(i, sc) == ((i % sc.width) * sc.height) + (i \div sc.width)

\* the slot collect_into_vec gives the result of index i
collect_slot(i, sc) == i

arena_sorted_in_place(objects, ray) ==
  [k \in 1..Len(objects) |-> objects[(Len(objects) + 1) - k]]

\* the arena after a query: collision sorts a Vec of its own
arena_after(objects, ray) == objects

pb_set(pos, delta) == delta

\* ProgressBar::inc
pb_inc(pos, delta) == pos + delta

\* the image-plane coordinates of a supersample, u = un/(4 W) and
\* v = vn/(4 H), of pixel (x, y) jittered by camera_samples (in quarters)
image_plane(sc, x, y, camera_samples) ==
  [un |-> (4 * x) + camera_samples[1], vn |-> (4 * y) + camera_samples[2]]

supersample_shared_jitter(sc, x, y, s) ==
  LET cs == sampler_next(s, 1)
      uv == image_plane(sc, x, y, <<cs.vals[1], cs.vals[1]>>)
      tr == to_ray(sc.camera, uv.un, uv.vn, cs.sampler)
      r == integrator_render(sc, tr.ray, tr.sampler)
  IN  [color |-> r.color, sampler |-> r.sampler, ray |-> tr.ray]

\* one supersample of the closure: jitter, camera ray, integrator
supersample(sc, x, y, s) ==
  LET cs == sampler_next(s, 2)
      uv == image_plane(sc, x, y, cs.vals)
      tr == to_ray(sc.camera, uv.un, uv.vn, cs.sampler)
      r == integrator_render(sc, tr.ray, tr.sampler)
  IN  [color |-> r.color, sampler |-> r.sampler, ray |-> tr.ray]

Busy(w) == worker[w].pc # "idle"

\* rayon hands index i to worker w; the closure starts
Take(w, i) ==
  /\ ~done
  /\ worker[w].pc = "idle"
  /\ i \in Indices \ claimed
  /\ claimed' = claimed \cup {i}
  /\ samplers' = [samplers EXCEPT ![local_sampler(w)] = sampler_generator(w)]
  /\ worker' = [worker EXCEPT ![w] =
                  [pc |-> "sample", i |-> i, x |-> i % scene.width,
                   y |-> scene.height - (i \div scene.width), s |-> 0, acc |-> Zero3]]
  /\ UNCHANGED <<scene, nthreads, buffer, writes, progress, done, wh, probe>>

\* one iteration of (0..samples_per_pixel).map(..).fold(..)
Sample(w) ==
  /\ worker[w].pc = "sample"
  /\ LET me == worker[w]
         r == supersample(scene, me.x, me.y, samplers[local_sampler(w)])
     IN  /\ samplers' = [samplers EXCEPT ![local_sampler(w)] = r.sampler]
         /\ worker' = [worker EXCEPT ![w].acc = vadd(me.acc, r.color),
                                     ![w].s = me.s + 1,
                                     ![w].pc = IF me.s + 1 = scene.samples_per_pixel
                                               THEN "inc" ELSE "sample"]
         /\ scene' = [scene EXCEPT !.objects = arena_after(scene.objects, r.ray)]
  /\ UNCHANGED <<nthreads, claimed, buffer, writes, progress, done, wh, probe>>

\* pb.inc(1)
IncProgress(w) ==
  /\ worker[w].pc = "inc"
  /\ progress' = pb_inc(progress, 1)
  /\ worker' = [worker EXCEPT ![w].pc = "emit"]
  /\ UNCHANGED <<scene, nthreads, claimed, buffer, writes, samplers, done, wh, probe>>

\* the closure returns acc / spp and collect_into_vec stores it
Emit(w) ==
  /\ worker[w].pc = "emit"
  /\ LET me == worker[w]
         slot == collect_slot(me.i, scene)
     IN  /\ buffer' = [buffer EXCEPT ![slot] =
                         [val |-> PixelValue(me.acc, scene.samples_per_pixel), px |-> me.i]]
         /\ writes' = [writes EXCEPT ![slot] = @ + 1]
  /\ worker' = [worker EXCEPT ![w] = Idle]
  /\ samplers' = [samplers EXCEPT ![w] = Random_default]
  /\ UNCHANGED <<scene, nthreads, claimed, progress, done, wh, probe>>

\* every index is collected: pb.finish_and_clear(); Ok(buffer)
Finish ==
  /\ ~done
  /\ claimed = Indices
  /\ \A w \in Workers : worker[w].pc = "idle"
  /\ done' = TRUE
  /\ UNCHANGED <<scene, nthreads, claimed, worker, buffer, writes, progress, samplers, wh, probe>>

Off == [pc |-> "off"]

Init ==
  /\ scene \in Scenes
  /\ nthreads \in 1..MaxThreads
  /\ claimed = {}
  /\ worker = [w \in Workers |-> Idle]
  /\ buffer = [i \in Indices |-> Unwritten]
  /\ writes = [i \in Indices |-> 0]
  /\ progress = 0
  /\ samplers = [k \in 0..nthreads |-> Random_default]
  /\ done = FALSE
  /\ wh = Off
  /\ probe = Off

Next ==
  \/ \E w \in Workers : \E i \in Indices : Take(w, i)
  \/ \E w \in Workers : Sample(w)
  \/ \E w \in Workers : IncProgress(w)
  \/ \E w \in Workers : Emit(w)
  \/ Finish

Spec == Init /\ [][Next]_vars

\* ------------------------------------------------- one call of render
\* the frames a call stack is given room for
StackCap == MaxDepth + 2

RayStart(ray, s) ==
  [pc |-> "call", ray |-> ray, depth |-> 0, sampler |-> s, stack |-> <<>>,
   value |-> Zero3, queries |-> 0, scatters |-> 0, trail |-> <<>>,
   terminal |-> "none", ray0 |-> ray, sampler0 |-> s]

\* Normal::render, the whole of it
NormalQuery ==
  /\ wh.pc = "call"
  /\ scene.integrator.kind = "Normal"
  /\ LET c == collision(scene.objects, wh.ray)
         r == Normal_render(scene, wh.ray, wh.sampler)
     IN  wh' = [wh EXCEPT !.pc = "ret", !.queries = @ + r.queries,
                          !.value = r.color, !.sampler = r.sampler,
                          !.terminal = IF c.some THEN "normal" ELSE "escape"]
  /\ UNCHANGED <<scene, nthreads, claimed, worker, buffer, writes, progress, samplers, done, probe>>

\* the cutoff tested before the accel is asked
WhittedQuery_cutoff_first ==
  /\ wh.pc = "call"
  /\ scene.integrator.kind = "Whitted"
  /\ LET c == collision(scene.objects, wh.ray)
     IN  wh' = IF cutoff(wh.depth, scene.integrator.max_depth)
               THEN [wh EXCEPT !.pc = "ret", !.value = scene.background,
                               !.terminal = "cutoff"]
               ELSE IF c.some
                    THEN [wh EXCEPT !.pc = "scatter", !.queries = @ + 1]
                    ELSE [wh EXCEPT !.pc = "ret", !.queries = @ + 1,
                                    !.value = gradient(wh.ray), !.terminal = "escape"]
  /\ UNCHANGED <<scene, nthreads, claimed, worker, buffer, writes, progress, samplers, done, probe>>

\* render_helper up to the scatter: the accel query, then the cutoff test
WhittedQuery ==
  /\ wh.pc = "call"
  /\ scene.integrator.kind = "Whitted"
  /\ LET c == collision(scene.objects, wh.ray)
     IN  wh' = IF c.some
               THEN IF cutoff(wh.depth, scene.integrator.max_depth)
                    THEN [wh EXCEPT !.pc = "ret", !.queries = @ + 1,
                                    !.value = scene.background, !.terminal = "cutoff"]
                    ELSE [wh EXCEPT !.pc = "scatter", !.queries = @ + 1]
               ELSE [wh EXCEPT !.pc = "ret", !.queries = @ + 1,
                               !.value = gradient(wh.ray), !.terminal = "escape"]
  /\ UNCHANGED <<scene, nthreads, claimed, worker, buffer, writes, progress, samplers, done, probe>>

\* the scatter of the hit material and the recursive call at depth + 1
WhittedScatter ==
  /\ wh.pc = "scatter"
  /\ wh.depth < StackCap
  /\ LET c == collision(scene.objects, wh.ray)
         b == scatter(scene.objects[c.rec.object].mat, c.rec.object, wh.sampler, wh.ray,
                      c.rec.hit_record)
     IN  wh' = [wh EXCEPT !.pc = "call", !.ray = b.out, !.sampler = b.sampler,
                          !.depth = @ + 1, !.scatters = @ + 1,
                          !.stack = Append(@, b.attenuation),
                          !.trail = Append(@, b.attenuation)]
  /\ UNCHANGED <<scene, nthreads, claimed, worker, buffer, writes, progress, samplers, done, probe>>

\* a call returns: the caller multiplies by its attenuation, render hands
\* the colour out
RayReturn ==
  /\ wh.pc = "ret"
  /\ wh' = IF wh.stack = <<>>
           THEN [wh EXCEPT !.pc = "done"]
           ELSE [wh EXCEPT !.value = mul_element_wise(wh.stack[Len(wh.stack)], @),
                           !.stack = SubSeq(@, 1, Len(@) - 1),
                           !.depth = @ - 1]
  /\ UNCHANGED <<scene, nthreads, claimed, worker, buffer, writes, progress, samplers, done, probe>>

RayInit ==
  /\ scene \in {sc \in Scenes : sc.width = 1 /\ sc.height = 1 /\ sc.samples_per_pixel = 1}
  /\ nthreads = 1
  /\ claimed = {}
  /\ worker = [w \in Workers |-> Idle]
  /\ buffer = [i \in Indices |-> Unwritten]
  /\ writes = [i \in Indices |-> 0]
  /\ progress = 0
  /\ samplers = [k \in 0..nthreads |-> Random_default]
  /\ done = FALSE
  /\ \E ray \in Rays : \E pos \in 0..4 :
       wh = RayStart(ray, [Random_default EXCEPT !.pos = pos])
  /\ probe = Off

RayNext ==
  \/ NormalQuery
  \/ WhittedQuery
  \/ WhittedScatter
  \/ RayReturn

SpecRay == RayInit /\ [][RayNext]_vars /\ WF_vars(RayNext)

\* the step-by-step call gives what integrator_render gives
RayAgrees ==
  wh.pc = "done" =>
    wh.value = integrator_render(scene, wh.ray0, wh.sampler0).color

\* ------------------------------------------------------------- primitives
\* Coordinates are whole numbers; arithmetic is exact.
vsub(a, b) == <<a[1] - b[1], a[2] - b[2], a[3] - b[3]>>
cross(a, b) ==
  <<(a[2] * b[3]) - (a[3] * b[2]), (a[3] * b[1]) - (a[1] * b[3]),
    (a[1] * b[2]) - (a[2] * b[1])>>

\* the number (r + s sqrt(D)) / den, with D >= 0 and den > 0
Surd(r, s, D, den) == [r |-> r, s |-> s, D |-> D, den |-> den]

\* -1, 0 or 1 by the sign of the number
surd_sign(x) ==
  LET sq == x.s * x.s * x.D
      rr == x.r * x.r
      cmp(m, n) == IF m > n THEN 1 ELSE IF m = n THEN 0 ELSE 0 - 1
  IN  IF x.s = 0 \/ x.D = 0 THEN cmp(x.r, 0)
      ELSE IF x.s > 0 THEN (IF x.r >= 0 THEN 1 ELSE cmp(sq, rr))
      ELSE (IF x.r <= 0 THEN 0 - 1 ELSE cmp(rr, sq))

\* x = y, for two numbers over the same D and den
surd_eq(x, y) == surd_sign(Surd(x.r - y.r, x.s - y.s, x.D, x.den)) = 0

Ray(origin, direction) == [origin |-> origin, direction |-> direction]

Sphere(center, radius) == [center |-> center, radius |-> radius]

\* Sphere::hit.  The normal (p - center).normalize() is kept as the vector
\* it is along; along the zero vector it is NaN.
Sphere_hit(sphere, ray) ==
  LET oc == vsub(ray.origin, sphere.center)
      a == magnitude2(ray.direction)
      b == 2 * dot(oc, ray.direction)
      c == magnitude2(oc) - (sphere.radius * sphere.radius)
      discriminant == (b * b) - (4 * a * c)
      t == Surd(0 - b, 0 - 1, discriminant, 2 * a)
      p == [j \in 1..3 |->
              Surd((ray.origin[j] * 2 * a) - (b * ray.direction[j]),
                   0 - ray.direction[j], discriminant, 2 * a)]
      along == [j \in 1..3 |->
                  Surd(p[j].r - (sphere.center[j] * 2 * a), p[j].s, discriminant, 2 * a)]
  IN  IF discriminant < 0 THEN None
      ELSE IF surd_sign(t) < 0 THEN None
      ELSE Some([distance |-> t, p |-> p, normal |-> along])

\* the points of the grid of half-width MaxCoord, and the 26 directions of
\* its lines
Grid == {<<x, y, z>> : x \in (0 - MaxCoord)..MaxCoord, y \in (0 - MaxCoord)..MaxCoord,
                       z \in (0 - MaxCoord)..MaxCoord}
Directions == {<<x, y, z>> : x \in (0 - 1)..1, y \in (0 - 1)..1, z \in (0 - 1)..1}
                \ {Zero3}

Centers == {<<0, 0, 0>>, <<1, 0, 0 - 1>>}

SphereCall(c, r, o, d) ==
  [pc |-> "call", fn |-> "Sphere::hit", shape |-> Sphere(c, r), ray |-> Ray(o, d),
   result |-> None]

SphereHit ==
  /\ probe.pc = "call"
  /\ probe.fn = "Sphere::hit"
  /\ probe' = [probe EXCEPT !.pc = "done", !.result = Sphere_hit(probe.shape, probe.ray)]
  /\ UNCHANGED <<scene, nthreads, claimed, worker, buffer, writes, progress, samplers, done, wh>>

TriangleParameters(vertices, handedness) ==
  [vertices |-> vertices, handedness |-> handedness]

\* TriangleParameters::init.  The normal, cross(..).normalize(), is kept as
\* the vector it is along; along the zero vector it is NaN.
init(params) ==
  LET a == vsub(params.vertices[3], params.vertices[1])
      b == vsub(params.vertices[2], params.vertices[1])
  IN  IF params.handedness = "Clockwise"
      THEN [vertices |-> params.vertices, edges |-> <<b, a>>, normal |-> cross(b, a)]
      ELSE [vertices |-> params.vertices, edges |-> <<a, b>>, normal |-> cross(a, b)]

culled_never(determinant) == FALSE

\* the test `determinant < eta()`: of a whole number, as the determinant of
\* whole coordinates is, it is determinant < 1
culled(determinant) == determinant < ETA

\* Triangle::hit (vertices[0], edges[0] of the code are vertices[1], edges[1]
\* here); quotients by the determinant are kept as num / determinant
Triangle_hit(tri, ray) ==
  LET p == cross(ray.direction, tri.edges[2])
      determinant == dot(tri.edges[1], p)
      t == vsub(ray.origin, tri.vertices[1])
      u == dot(t, p)
      q == cross(t, tri.edges[1])
      v == dot(ray.direction, q)
      w == determinant - u - v
      intersection_point ==
        [j \in 1..3 |->
           Surd((tri.vertices[1][j] * u) + (tri.vertices[2][j] * v) + (tri.vertices[3][j] * w),
                0, 0, determinant)]
  IN  IF culled(determinant) THEN None
      ELSE IF u < 0 \/ u > determinant THEN None
      ELSE IF v < 0 \/ u + v > determinant THEN None
      ELSE Some([distance |-> Surd(dot(tri.edges[2], q), 0, 0, determinant),
                 p |-> intersection_point,
                 normal |-> [j \in 1..3 |-> Surd(tri.normal[j], 0, 0, 1)]])

\* triangles: one in a plane of the axes, one oblique, and three degenerate
\* ones (collinear, two vertices equal, all equal)
VertexTriples ==
  { << <<0, 0, 0>>, <<2, 0, 0>>, <<0, 2, 0>> >>,
    << <<1, 0, 0>>, <<0, 1, 0>>, <<0, 0, 1>> >>,
    << <<0, 0, 0>>, <<1, 1, 0>>, <<2, 2, 0>> >>,
    << <<0, 0, 0>>, <<0, 0, 0>>, <<1, 0, 0>> >>,
    << <<1, 1, 1>>, <<1, 1, 1>>, <<1, 1, 1>> >> }

Handednesses == {"Clockwise", "CounterClockwise"}

TriangleCall(vs, h, o, d) ==
  [pc |-> "call", fn |-> "Triangle::hit", shape |-> init(TriangleParameters(vs, h)),
   ray |-> Ray(o, d), result |-> None]

TriangleHit ==
  /\ probe.pc = "call"
  /\ probe.fn = "Triangle::hit"
  /\ probe' = [probe EXCEPT !.pc = "done", !.result = Triangle_hit(probe.shape, probe.ray)]
  /\ UNCHANGED <<scene, nthreads, claimed, worker, buffer, writes, progress, samplers, done, wh>>

\* Unit vectors, in fifths: the axes and the vectors of components 3/5, 4/5
UnitVectors ==
  {v \in ((0 - 5)..5) \X ((0 - 5)..5) \X ((0 - 5)..5) : magnitude2(v) = 25}

mirror_projected(vector, normal) ==
  vsub(vscale(vector, 25), vscale(normal, dot(vector, normal)))

\* math::mirror of two vectors in fifths: vector - normal * 2 * (vector . normal),
\* in 125ths
mirror(vector, normal) ==
  vsub(vscale(vector, 25), vscale(normal, 2 * dot(vector, normal)))

\* Mirror::scatter on vectors: ray.direction and hit_record.normal in fifths,
\* the sample in quarters.  The direction, (..).normalize(), is kept as the
\* vector it is along, in 500ths.
Mirror_reflect(m, s, ray, hit_record) ==
  LET mirror_direction == mirror(ray.direction, hit_record.normal)
      sp == sample_unit_sphere(s)
      along == vadd(vscale(mirror_direction, 4), vscale(sp.v, 125 * m.perturbation))
      attenuation == IF dot(hit_record.normal, along) > 0 THEN m.albedo ELSE Zero3
  IN  [out |-> Ray(hit_record.p, along), attenuation |-> attenuation, sampler |-> sp.sampler]

MirrorCall(k, pos, d, n) ==
  [pc |-> "call", fn |-> "Mirror::scatter", mat |-> Mirror(k, <<1, 2, 1>>),
   sampler |-> [Random_default EXCEPT !.pos = pos],
   ray |-> Ray(<<0, 0, 0>>, d), hit_record |-> [p |-> <<1, 0, 0 - 1>>, normal |-> n],
   result |-> None]

MirrorScatter ==
  /\ probe.pc = "call"
  /\ probe.fn = "Mirror::scatter"
  /\ probe' = [probe EXCEPT
                 !.pc = "done",
                 !.result = Mirror_reflect(probe.mat, probe.sampler, probe.ray,
                                           probe.hit_record)]
  /\ UNCHANGED <<scene, nthreads, claimed, worker, buffer, writes, progress, samplers, done, wh>>

\* ------------------------------------- one call of the geometry layer
\* what one object may answer to the ray of a query: no hit, or a hit behind
\* the origin (-1), closer than ETA (0) or at ETA and beyond; the normal is
\* one of the axes, by the place k of the object in the arena
HitAnswers(k) ==
  {None} \cup
  {Some(HitRecord(d, [j \in 1..3 |-> IF j = ((k - 1) % 3) + 1 THEN 1 ELSE 0], 0 - 4)) :
     d \in (0 - 1)..MaxDist}

\* the arenas of at most MaxObjects objects (the material is Mirror::default())
\* whose answers to `ray` are all of HitAnswers
ArenasFor(ray) ==
  UNION { { [k \in 1..n |->
               Textured([r \in Rays |-> IF r = ray THEN a[k] ELSE None],
                        Mirror(0, <<1, 1, 1>>))] :
            a \in {f \in [1..n -> UNION {HitAnswers(k) : k \in 1..n}] :
                     \A k \in 1..n : f[k] \in HitAnswers(k)} } :
          n \in 0..MaxObjects }

\* n objects that all answer `ray` with a hit at the distance d
TiedArena(n, d, ray) ==
  [k \in 1..n |->
     Textured([r \in Rays |->
                 IF r = ray
                 THEN Some(HitRecord(d, [j \in 1..3 |-> IF j = ((k - 1) % 3) + 1 THEN 1 ELSE 0],
                                     0 - 4))
                 ELSE None],
              Mirror(0, <<1, 1, 1>>))]

CollisionCall(objects, ray) ==
  [pc |-> "call", fn |-> "collision", objects |-> objects, query |-> ray, result |-> None]

\* Accel::collision on an ObjectList
Collide ==
  /\ probe.pc = "call"
  /\ probe.fn = "collision"
  /\ \E r \in collision_outcomes(probe.objects, probe.query) :
       probe' = [probe EXCEPT !.pc = "done", !.result = r]
  /\ UNCHANGED <<scene, nthreads, claimed, worker, buffer, writes, progress, samplers, done, wh>>

\* ---------------------------------------------------------- the exporters
\* A floating-point component: NaN, or the number val/20.
F(val) == [nan |-> FALSE, val |-> val]
NaN == [nan |-> TRUE, val |-> 0]

MAX_COLOR == 255

\* ToPrimitive::to_u32 of the float x * MAX_COLOR: None for NaN and for a
\* value at or below -1, otherwise the value cut towards zero
scaled_to_u32(x) ==
  IF x.nan \/ (x.val * MAX_COLOR) <= (0 - 20) THEN None
  ELSE Some(IF x.val < 0 THEN 0 ELSE (x.val * MAX_COLOR) \div 20)

\* ToPrimitive::to_u8 of a u32
to_u8(n) == IF n > 255 THEN None ELSE Some(n)

Exported(outcome, file) == [outcome |-> outcome, file |-> file]

\* PPMExporter::header and FramebufferExporterBase::export for PPMExporter;
\* `writable` says whether File::create and the writes succeed
PPM_export(e, int_buffer, writable) ==
  IF e.width = 0 \/ e.height = 0 THEN Exported("InvalidDimensions", None)
  ELSE IF ~writable THEN Exported("IO", None)
  ELSE Exported("Ok", Some([header |-> <<"P3", e.width, e.height, 255>>,
                            pixels |-> int_buffer]))

\* FramebufferExporterBase::export for PNGExporter; `writable` says whether
\* save_buffer_with_format succeeds
PNG_export(e, int_buffer, writable) ==
  IF e.width < 1 \/ e.height < 1 THEN Exported("InvalidDimensions", None)
  ELSE IF \E j \in 1..Len(int_buffer) : \E c \in 1..3 : ~to_u8(int_buffer[j][c]).some
       THEN Exported("panic", None)
  ELSE IF ~writable THEN Exported("Image", None)
  ELSE Exported("Ok", Some([header |-> <<"PNG", e.width, e.height, 255>>,
                            pixels |-> int_buffer]))

\* FramebufferExporter::export: the conversion of the buffer, every unwrap
\* of which may panic, then the export of the format
export(e, pixels, writable) ==
  IF \E j \in 1..Len(pixels) : \E c \in 1..3 : ~scaled_to_u32(pixels[j][c]).some
  THEN Exported("panic", None)
  ELSE LET int_buffer == [j \in 1..Len(pixels) |->
                            [c \in 1..3 |-> scaled_to_u32(pixels[j][c]).rec]]
       IN  IF e.kind = "PPM" THEN PPM_export(e, int_buffer, writable)
           ELSE PNG_export(e, int_buffer, writable)

\* the pixels of the buffers handed to export: in range, negative, barely
\* negative, above 1, NaN
ExportPixels ==
  { <<F(0), F(7), F(20)>>, <<F(20), F(20), F(20)>>, <<F(0 - 20), F(0), F(0)>>,
    <<F(0), F(0 - 1), F(0)>>, <<F(0), F(0), F(40)>>, <<NaN, F(0), F(0)>> }

\* an exporter of width x height and a buffer of width * height pixels
ExportCall(kind, width, height, pixels, writable) ==
  [pc |-> "call", fn |-> "export", exporter |-> [kind |-> kind, width |-> width, height |-> height],
   buffer |-> pixels, writable |-> writable, result |-> None]

Export ==
  /\ probe.pc = "call"
  /\ probe.fn = "export"
  /\ probe' = [probe EXCEPT !.pc = "done",
                            !.result = export(probe.exporter, probe.buffer, probe.writable)]
  /\ UNCHANGED <<scene, nthreads, claimed, worker, buffer, writes, progress, samplers, done, wh>>

\* ------------------------------------------------ the camera of a scene
\* the aspect ratio ProcessedScene::from computes, as a fraction
scene_aspect_ratio(width, height) == [num |-> height, den |-> width]

\* Pinhole::init for a camera at the origin that looks down -z with +y up
\* (w = (0,0,1), u' = (1,0,0), v' = (0,1,0)) and whose tan(vfov/2) is
\* tn/td; the vectors of the BasicPinhole are in units of 1/den
Pinhole_init(tn, td, aspect_ratio) ==
  LET den == aspect_ratio.den * td
      half_height == tn * aspect_ratio.den
      half_width == aspect_ratio.num * tn
  IN  [origin |-> <<0, 0, 0>>,
       horizontal |-> <<2 * half_width, 0, 0>>,
       vertical |-> <<0, 2 * half_height, 0>>,
       lower_left |-> <<0 - half_width, 0 - half_height, 0 - den>>,
       den |-> den]

\* From<Scene> for ProcessedScene, as far as the Pinhole camera goes
SceneCall(width, height, tn, td) ==
  [pc |-> "call", fn |-> "ProcessedScene::from", width |-> width, height |-> height,
   tan_half_vfov |-> [num |-> tn, den |-> td], result |-> None]

FromScene ==
  /\ probe.pc = "call"
  /\ probe.fn = "ProcessedScene::from"
  /\ probe' = [probe EXCEPT
                 !.pc = "done",
                 !.result = Pinhole_init(probe.tan_half_vfov.num, probe.tan_half_vfov.den,
                                         scene_aspect_ratio(probe.width, probe.height))]
  /\ UNCHANGED <<scene, nthreads, claimed, worker, buffer, writes, progress, samplers, done, wh>>

\* ------------------------------------------ the size of the pixel buffer
\* A u32 is kept as its four bytes, the least significant first; the
\* product of two as eight bytes.
term(a, b, i, k) ==
  IF (k - i) >= 0 /\ (k - i) <= 3 THEN a[i + 1] * b[(k - i) + 1] ELSE 0

column(a, b, k) == term(a, b, 0, k) + term(a, b, 1, k) + term(a, b, 2, k) + term(a, b, 3, k)

\* the bytes k.. of the product of a and b, c being the carry into byte k
RECURSIVE product_from(_, _, _, _)
product_from(a, b, k, c) ==
  IF k = 8 THEN <<>>
  ELSE LET t == column(a, b, k) + c
       IN  <<t % 256>> \o product_from(a, b, k + 1, t \div 256)

\* the product of two u32 as a number, not cut to 32 bits
product(a, b) == product_from(a, b, 0, 0)

\* self.width * self.height in u32: with overflow checks (a debug build) a
\* product of 2^32 or more panics, without (a release build) it is cut to
\* its low 32 bits
u32_mul(a, b, overflow_checks) ==
  LET p == product(a, b)
      fits == \A k \in 5..8 : p[k] = 0
  IN  IF fits \/ ~overflow_checks
      THEN [panic |-> FALSE, val |-> SubSeq(p, 1, 4) \o <<0, 0, 0, 0>>]
      ELSE [panic |-> TRUE, val |-> <<0, 0, 0, 0, 0, 0, 0, 0>>]

\* Renderer::render as far as the number of pixels goes: the length of the
\* progress bar, the capacity of the buffer, the indices of the parallel
\* range, all of them self.width * self.height
render_size(width, height, overflow_checks) ==
  LET n == u32_mul(width, height, overflow_checks)
  IN  IF n.panic THEN [outcome |-> "panic", bar |-> n.val, capacity |-> n.val, pixels |-> n.val]
      ELSE [outcome |-> "Ok", bar |-> n.val, capacity |-> n.val, pixels |-> n.val]

\* widths and heights: 0, 1, 2, 3, 2^16 - 1, 2^16, 2^16 + 1, 2^31, 2^32 - 1
Extents ==
  { <<0, 0, 0, 0>>, <<1, 0, 0, 0>>, <<2, 0, 0, 0>>, <<3, 0, 0, 0>>, <<255, 255, 0, 0>>,
    <<0, 0, 1, 0>>, <<1, 0, 1, 0>>, <<0, 0, 0, 128>>, <<255, 255, 255, 255>> }

RenderCall(width, height) ==
  [pc |-> "call", fn |-> "Renderer::render", width |-> width, height |-> height,
   result |-> None]

\* one call of render, in a build with or without overflow checks
RenderSize ==
  /\ probe.pc = "call"
  /\ probe.fn = "Renderer::render"
  /\ \E overflow_checks \in BOOLEAN :
       probe' = [probe EXCEPT
                   !.pc = "done",
                   !.result = render_size(probe.width, probe.height, overflow_checks)]
  /\ UNCHANGED <<scene, nthreads, claimed, worker, buffer, writes, progress, samplers, done, wh>>

\* the seeds whose streams are the tables of PatternTable
Seeds == 0..(Len(PatternTable) - 1)

PrimitiveCall(fn, seed, pos) ==
  [pc |-> "call", fn |-> fn, sampler |-> [with_seed(seed) EXCEPT !.pos = pos],
   result |-> None]

\* sampler::primitives::sample_unit_sphere: the vector returned and the
\* sampler as the call leaves it
SampleSphere ==
  /\ probe.pc = "call"
  /\ probe.fn = "sample_unit_sphere"
  /\ LET r == sample_unit_sphere(probe.sampler)
     IN  probe' = [probe EXCEPT !.pc = "done",
                                !.result = [v |-> r.v, sampler |-> r.sampler]]
  /\ UNCHANGED <<scene, nthreads, claimed, worker, buffer, writes, progress, samplers, done, wh>>

\* sampler::primitives::sample_unit_disk
SampleDisk ==
  /\ probe.pc = "call"
  /\ probe.fn = "sample_unit_disk"
  /\ LET r == sample_unit_disk(probe.sampler)
     IN  probe' = [probe EXCEPT !.pc = "done",
                                !.result = [v |-> r.v, sampler |-> r.sampler]]
  /\ UNCHANGED <<scene, nthreads, claimed, worker, buffer, writes, progress, samplers, done, wh>>

GeomInit ==
  /\ scene = Renderer([objects |-> <<>>, camera |-> Pinhole, background |-> Zero3],
                      Normal, 1, 1, 1)
  /\ nthreads = 1
  /\ claimed = {}
  /\ worker = [w \in Workers |-> Idle]
  /\ buffer = [i \in Indices |-> Unwritten]
  /\ writes = [i \in Indices |-> 0]
  /\ progress = 0
  /\ samplers = [k \in 0..nthreads |-> Random_default]
  /\ done = FALSE
  /\ wh = Off
  /\ \/ \E ray \in Rays : \E objects \in ArenasFor(ray) :
          probe = CollisionCall(objects, ray)
     \/ \E ray \in Rays : \E n \in 20..21 : \E d \in ETA..MaxDist :
          probe = CollisionCall(TiedArena(n, d, ray), ray)
     \/ \E c \in Centers : \E r \in 0..MaxRadius : \E o \in Grid : \E d \in Directions :
          probe = SphereCall(c, r, o, d)
     \/ \E vs \in VertexTriples : \E h \in Handednesses :
          \E o \in Grid : \E d \in Directions :
            probe = TriangleCall(vs, h, o, d)
     \/ \E k \in 0..1 : \E pos \in 0..4 : \E d \in UnitVectors : \E n \in UnitVectors :
          probe = MirrorCall(k, pos, d, n)
     \/ \E fn \in {"sample_unit_sphere", "sample_unit_disk"} :
          \E seed \in Seeds : \E pos \in 0..4 :
            probe = PrimitiveCall(fn, seed, pos)
     \/ \E kind \in {"PPM", "PNG"} : \E width \in 0..2 : \E height \in 0..1 :
          \E b \in [1..(width * height) -> ExportPixels] : \E writable \in BOOLEAN :
            probe = ExportCall(kind, width, height, b, writable)
     \/ \E width \in 1..3 : \E height \in 1..3 : \E tn \in 1..2 : \E td \in 1..2 :
          probe = SceneCall(width, height, tn, td)
     \/ \E width \in Extents : \E height \in Extents :
          probe = RenderCall(width, height)

GeomNext ==
  \/ Collide
  \/ SphereHit
  \/ TriangleHit
  \/ MirrorScatter
  \/ SampleSphere
  \/ SampleDisk
  \/ Export
  \/ FromScene
  \/ RenderSize

SpecGeom == GeomInit /\ [][GeomNext]_vars


\* ================================================================ claims

\* C1.  The buffer render fills has exactly W*H slots; a slot is written at
\* most once and, once written, holds the value computed for the pixel of
\* its own index; an index in work is held by one worker only and its slot
\* is still unwritten; when render returns every slot has been written once.
Thm_C1 ==
  /\ DOMAIN buffer = 0..((scene.width * scene.height) - 1)
  /\ \A i \in DOMAIN buffer :
       /\ writes[i] <= 1
       /\ (writes[i] = 1) <=> (buffer[i] # Unwritten)
       /\ (buffer[i] # Unwritten) => (buffer[i].px = i)
       /\ done => (writes[i] = 1)
  /\ \A w \in Workers :
       Busy(w) => /\ worker[w].i \in claimed
                  /\ writes[worker[w].i] = 0
  /\ \A w1, w2 \in Workers :
       (Busy(w1) /\ Busy(w2) /\ w1 # w2) => (worker[w1].i # worker[w2].i)

\* two workers are at work on a 2x2 image of which a slot is already written
Wit_C1 ==
  /\ scene.width * scene.height = 4
  /\ \E w1, w2 \in Workers : w1 # w2 /\ Busy(w1) /\ Busy(w2)
  /\ \E i \in DOMAIN buffer : writes[i] = 1 /\ i > 0

\* the value of pixel i as a function of the scene and the root seed alone:
\* the fold of the closure run on a fresh clone of the root sampler
RECURSIVE pixel_fold(_, _, _, _, _, _)
pixel_fold(sc, x, y, k, s, acc) ==
  IF k = 0 THEN acc
  ELSE LET r == supersample(sc, x, y, s)
       IN  pixel_fold(sc, x, y, k - 1, r.sampler, vadd(acc, r.color))

RenderedPixel(sc, i) ==
  PixelValue(pixel_fold(sc, i % sc.width, sc.height - (i \div sc.width),
                        sc.samples_per_pixel, with_seed(RootSeed), Zero3),
             sc.samples_per_pixel)

\* C2.  When render has returned, every slot holds the value that the scene
\* and the root seed alone determine, whichever worker computed it and in
\* whatever order: two complete runs on the same inputs give equal buffers.
Thm_C2 ==
  done => \A i \in DOMAIN buffer : buffer[i].val = RenderedPixel(scene, i)

\* a finished render by two workers of a scene with objects, in which two
\* pixels got different values
Wit_C2 ==
  /\ done
  /\ nthreads = 2
  /\ scene.objects # <<>>
  /\ \E i, j \in DOMAIN buffer : buffer[i].val # buffer[j].val

Thm_C4 ==
  [][ /\ samplers'[0] = samplers[0]
      /\ \A w \in Workers :
           (samplers'[w] # samplers[w]) => (worker'[w] # worker[w])
      /\ \A w \in Workers :
           (worker'[w] # worker[w]) =>
             \A v \in Workers \ {w} : samplers'[v] = samplers[v] ]_vars

\* two workers at work whose samplers stand at different positions
Wit_C4 ==
  \E w1, w2 \in Workers :
    /\ Busy(w1) /\ Busy(w2)
    /\ samplers[w1].pos > 0
    /\ samplers[w2].pos > samplers[w1].pos

\* C5.  No step of a render changes the scene: the arena and its accel, the
\* camera, the integrator, the background, W, H and N stay as constructed.
Thm_C5 == [][scene' = scene /\ nthreads' = nthreads]_vars

\* in the middle of a render of a scene with objects: a slot is written, the
\* progress bar has moved and a worker has drawn from its sampler
Wit_C5 ==
  /\ ~done
  /\ Len(scene.objects) > 1
  /\ scene.integrator.kind = "Whitted"
  /\ progress > 0
  /\ \E i \in DOMAIN buffer : writes[i] = 1
  /\ \E w \in Workers : Busy(w) /\ samplers[w].pos > 2

\* C6.  The progress counter counts the pixels whose samples are all
\* evaluated and whose increment is made (those written and those about to
\* be), never exceeds W*H, and is W*H when render returns.
Thm_C6 ==
  /\ progress <= scene.width * scene.height
  /\ progress = Cardinality({i \in DOMAIN buffer : writes[i] >= 1})
                + Cardinality({w \in Workers : worker[w].pc = "emit"})
  /\ \A w \in Workers :
       worker[w].pc \in {"inc", "emit"} => (worker[w].s = scene.samples_per_pixel)
  /\ done => (progress = scene.width * scene.height)

\* two workers have both just made their increment
Wit_C6 ==
  /\ progress >= 2
  /\ \E w1, w2 \in Workers :
       w1 # w2 /\ worker[w1].pc = "emit" /\ worker[w2].pc = "emit"

\* C7.  In a call of Whitted::render the depth is at most max_depth, equals
\* the number of callers on the stack, a scatter is made only below
\* max_depth, and there are at most max_depth scatters and max_depth + 1
\* accel queries.
Thm_C7 ==
  (wh.pc # "off" /\ scene.integrator.kind = "Whitted") =>
    /\ wh.depth <= scene.integrator.max_depth
    /\ wh.pc \in {"call", "scatter"} => (wh.depth = Len(wh.stack))
    /\ wh.pc \in {"call", "scatter"} => (wh.depth = wh.scatters)
    /\ wh.pc = "scatter" => (wh.depth < scene.integrator.max_depth)
    /\ wh.scatters <= scene.integrator.max_depth
    /\ wh.queries <= scene.integrator.max_depth + 1

\* a call at depth max_depth, max_depth being the largest of the model
Wit_C7 ==
  /\ scene.integrator.kind = "Whitted"
  /\ scene.integrator.max_depth = MaxDepth
  /\ wh.pc = "call"
  /\ wh.depth = MaxDepth

\* C8.  Every call of render returns.
Thm_C8 == <>(wh.pc = "done")

\* a call that returned after scattering at every depth between facing
\* mirrors
Wit_C8 ==
  /\ wh.pc = "done"
  /\ scene.objects = ArenaMirrors
  /\ scene.integrator.kind = "Whitted"
  /\ scene.integrator.max_depth = MaxDepth
  /\ wh.scatters = MaxDepth

\* the colour c seen through the attenuations atts, first one outermost
RECURSIVE seen_through(_, _)
seen_through(c, atts) ==
  IF atts = <<>> THEN c
  ELSE LET r == seen_through(c, Tail(atts))
           a == Head(atts)
       IN  <<a[1] * r[1], a[2] * r[2], a[3] * r[3]>>

\* C9.  A call of Whitted::render in which the ray at every depth up to
\* max_depth hit returns the background multiplied, component by component,
\* by the max_depth attenuations of its scatters.
Thm_C9 ==
  (wh.pc = "done" /\ wh.terminal = "cutoff") =>
    /\ Len(wh.trail) = scene.integrator.max_depth
    /\ wh.value = seen_through(scene.background, wh.trail)

\* such a call with max_depth scatters whose attenuations changed the colour
Wit_C9 ==
  /\ wh.pc = "done"
  /\ wh.terminal = "cutoff"
  /\ Len(wh.trail) = MaxDepth
  /\ wh.value # scene.background
  /\ wh.value # Zero3

\* C10 as claimed.  A primary ray that hits nothing gets the configured
\* background, under either integrator.
Orig_C10 ==
  (wh.pc = "done" /\ wh.terminal = "escape" /\ wh.trail = <<>>) =>
    (wh.value = scene.background)

\* C11.  ObjectList::collision gives None exactly when no object of the arena
\* answers the ray with a hit at distance >= ETA (so always for an empty
\* arena); otherwise it gives a hit at distance >= ETA that no other such hit
\* of the arena is closer than, together with the object that gave this hit.
Thm_C11 ==
  (probe.pc = "done" /\ probe.fn = "collision") =>
    LET hits == {k \in 1..Len(probe.objects) :
                   /\ probe.objects[k].hit[probe.query].some
                   /\ probe.objects[k].hit[probe.query].rec.distance >= ETA}
        r == probe.result
    IN  /\ r.some <=> (hits # {})
        /\ (probe.objects = <<>>) => ~r.some
        /\ r.some =>
             /\ r.rec.hit_record.distance >= ETA
             /\ \A k \in hits :
                  r.rec.hit_record.distance <= probe.objects[k].hit[probe.query].rec.distance
             /\ r.rec.object \in hits
             /\ probe.objects[r.rec.object].hit[probe.query].rec = r.rec.hit_record

\* a query of three objects: the first hit closer than ETA, the second
\* farther than the third, whose hit is returned
Wit_C11 ==
  /\ probe.pc = "done"
  /\ probe.fn = "collision"
  /\ Len(probe.objects) = 3
  /\ probe.objects[1].hit[probe.query].some
  /\ probe.objects[1].hit[probe.query].rec.distance < ETA
  /\ probe.objects[2].hit[probe.query].some
  /\ probe.objects[3].hit[probe.query].some
  /\ probe.objects[2].hit[probe.query].rec.distance > probe.objects[3].hit[probe.query].rec.distance
  /\ probe.result.some
  /\ probe.result.rec.object = 3

\* C12.  A call of Normal::render makes one accel query and no scatter,
\* leaves the sampler where it was, and returns the background when the ray
\* has no hit at distance >= ETA (so for every ray of an empty arena) and
\* otherwise 0.5 n + 0.5, component by component, of the normal n of a
\* closest such hit.
Thm_C12 ==
  (wh.pc = "done" /\ scene.integrator.kind = "Normal") =>
    LET hits == {k \in 1..Len(scene.objects) :
                   /\ scene.objects[k].hit[wh.ray0].some
                   /\ scene.objects[k].hit[wh.ray0].rec.distance >= ETA}
    IN  /\ wh.queries = 1
        /\ wh.scatters = 0
        /\ wh.sampler = wh.sampler0
        /\ (hits = {}) => (wh.value = scene.background)
        /\ (scene.objects = <<>>) => (wh.value = scene.background)
        /\ (hits # {}) =>
             \E k \in hits :
               /\ \A j \in hits : scene.objects[k].hit[wh.ray0].rec.distance
                                    <= scene.objects[j].hit[wh.ray0].rec.distance
               /\ \A c \in 1..3 :
                    wh.value[c] = (10 * scene.objects[k].hit[wh.ray0].rec.normal[c]) + 10

\* a call that returned the colour of a normal, in a scene of which another
\* ray gets the background
Wit_C12 ==
  /\ wh.pc = "done"
  /\ scene.integrator.kind = "Normal"
  /\ wh.terminal = "normal"
  /\ wh.value # scene.background
  /\ \E r \in Rays : ~collision(scene.objects, r).some

\* C12, the consequence for the driver: a finished render of an empty arena
\* by the Normal integrator holds the background in every slot.
EmptySceneUniform ==
  (done /\ scene.objects = <<>> /\ scene.integrator.kind = "Normal") =>
    \A i \in DOMAIN buffer :
      buffer[i].val = PixelValue(vscale(scene.background, scene.samples_per_pixel),
                                 scene.samples_per_pixel)

\* C13 as claimed.  The coordinates (u, v) of every supersample lie in
\* [0,1]^2: 0 <= un <= 4 W and 0 <= vn <= 4 H in quarters of a pixel, and the
\* bottom row of the image (row H - 1) has y = 0, so that its v starts at 0.
Orig_C13 ==
  \A w \in Workers :
    (worker[w].pc = "sample") =>
      LET cs == sampler_next(samplers[local_sampler(w)], 2)
          uv == image_plane(scene, worker[w].x, worker[w].y, cs.vals)
      IN  /\ 0 <= uv.un /\ uv.un <= 4 * scene.width
          /\ 0 <= uv.vn /\ uv.vn <= 4 * scene.height
          /\ (worker[w].i \div scene.width = scene.height - 1) => (worker[w].y = 0)

\* the sum of the colours of the first k supersamples of pixel (x, y) and the
\* sampler after them: each supersample takes its jitter from the next two
\* values of the stream, then builds the camera ray, then calls the
\* integrator once on it
RECURSIVE first_samples(_, _, _, _, _)
first_samples(sc, x, y, k, s0) ==
  IF k = 0 THEN [acc |-> Zero3, sampler |-> s0]
  ELSE LET before == first_samples(sc, x, y, k - 1, s0)
           s == before.sampler
           su == gen(s.seed, s.pos)
           sv == gen(s.seed, s.pos + 1)
           tr == to_ray(sc.camera, (4 * x) + su, (4 * y) + sv, [s EXCEPT !.pos = @ + 2])
           r == integrator_render(sc, tr.ray, tr.sampler)
       IN  [acc |-> vadd(before.acc, r.color), sampler |-> r.sampler]

Orig_C15 ==
  (probe.pc = "done" /\ probe.fn \in {"Sphere::hit", "Triangle::hit"} /\ probe.result.some) =>
    (surd_sign(probe.result.rec.distance) > 0)

\* C16 as claimed.  Sphere::hit gives None when the discriminant is negative;
\* when a root of the quadratic is non-negative it gives the hit at the
\* smaller non-negative root t, at the point o + t d; it gives None only when
\* no root is non-negative.
Orig_C16 ==
  (probe.pc = "done" /\ probe.fn = "Sphere::hit") =>
    LET oc == vsub(probe.ray.origin, probe.shape.center)
        a == magnitude2(probe.ray.direction)
        b == 2 * dot(oc, probe.ray.direction)
        c == magnitude2(oc) - (probe.shape.radius * probe.shape.radius)
        D == (b * b) - (4 * a * c)
        near == Surd(0 - b, 0 - 1, D, 2 * a)
        far == Surd(0 - b, 1, D, 2 * a)
        t == IF surd_sign(near) >= 0 THEN near ELSE far
        r == probe.result
    IN  /\ (D < 0) => ~r.some
        /\ (D >= 0 /\ surd_sign(far) >= 0) =>
             /\ r.some
             /\ surd_eq(r.rec.distance, t)
             /\ \A j \in 1..3 :
                  surd_eq(r.rec.p[j],
                          Surd((probe.ray.origin[j] * 2 * a) + (t.r * probe.ray.direction[j]),
                               t.s * probe.ray.direction[j], D, 2 * a))
        /\ (~r.some) => (D < 0 \/ surd_sign(far) < 0)

\* a sphere of radius 0; a triangle whose vertices lie on one line
Degenerate(fn, shape) ==
  IF fn = "Sphere::hit" THEN shape.radius = 0
  ELSE cross(vsub(shape.vertices[2], shape.vertices[1]),
             vsub(shape.vertices[3], shape.vertices[1])) = Zero3

\* C17 as claimed.  A degenerate primitive reports no hit, whatever the ray.
Orig_C17 ==
  (probe.pc = "done" /\ probe.fn \in {"Sphere::hit", "Triangle::hit"}
     /\ Degenerate(probe.fn, probe.shape)) =>
    ~probe.result.some

\* C18.  Triangle::hit gives None when the determinant is below ETA (the ray
\* is parallel to the plane or comes from behind); so every hit it reports
\* was computed with a divisor that is at least ETA, and the direction of its
\* ray points against the stored normal: direction . normal < 0.
Thm_C18 ==
  (probe.pc = "done" /\ probe.fn = "Triangle::hit") =>
    LET determinant == dot(probe.shape.edges[1],
                           cross(probe.ray.direction, probe.shape.edges[2]))
        r == probe.result
    IN  /\ (determinant < ETA) => ~r.some
        /\ r.some =>
             /\ r.rec.distance.den >= ETA
             /\ \A j \in 1..3 : r.rec.p[j].den >= ETA
             /\ dot(probe.ray.direction, probe.shape.normal) < 0
             /\ \A j \in 1..3 : r.rec.normal[j].r = probe.shape.normal[j]

\* an oblique ray that hits the front of the oblique triangle, clockwise
Wit_C18 ==
  /\ probe.pc = "done"
  /\ probe.fn = "Triangle::hit"
  /\ probe.shape.vertices = << <<1, 0, 0>>, <<0, 1, 0>>, <<0, 0, 1>> >>
  /\ probe.shape.edges[1] = <<0 - 1, 1, 0>>
  /\ probe.ray.direction \notin {<<1, 1, 1>>, <<0 - 1, 0 - 1, 0 - 1>>}
  /\ probe.result.some

\* C19 as claimed.  The point of a hit Triangle::hit reports is the point of
\* the ray at the reported distance, p = origin + distance * direction, and
\* lies in the triangle.
Orig_C19 ==
  (probe.pc = "done" /\ probe.fn = "Triangle::hit" /\ probe.result.some) =>
    LET r == probe.result.rec
    IN  \A j \in 1..3 :
          /\ r.p[j].den = r.distance.den
          /\ r.p[j].r = (probe.ray.origin[j] * r.distance.den)
                          + (r.distance.r * probe.ray.direction[j])

\* C20.  A Mirror of perturbation 0, hit along the unit direction d where the
\* unit normal is n, sends out a ray from the hit point along
\* r = d - 2 (d . n) n: r is a unit vector, r . n = -(d . n), so r . n > 0
\* whenever d . n < 0; the attenuation is the albedo when n . r > 0 and zero
\* otherwise.
Thm_C20 ==
  (probe.pc = "done" /\ probe.fn = "Mirror::scatter" /\ probe.mat.perturbation = 0) =>
    LET d == probe.ray.direction
        n == probe.hit_record.normal
        r == [j \in 1..3 |-> (25 * d[j]) - (2 * dot(d, n) * n[j])]
        out == probe.result.out
    IN  /\ out.origin = probe.hit_record.p
        /\ cross(out.direction, r) = Zero3
        /\ dot(out.direction, r) > 0
        /\ magnitude2(r) = 125 * 125
        /\ dot(r, n) = 0 - (25 * dot(d, n))
        /\ (dot(d, n) < 0) => (dot(r, n) > 0)
        /\ (dot(n, r) > 0) => (probe.result.attenuation = probe.mat.albedo)
        /\ (dot(n, r) <= 0) => (probe.result.attenuation = Zero3)

\* a perfect mirror hit slantwise from the front, neither vector on an axis
Wit_C20 ==
  /\ probe.pc = "done"
  /\ probe.fn = "Mirror::scatter"
  /\ probe.mat.perturbation = 0
  /\ probe.ray.direction = <<3, 0 - 4, 0>>
  /\ probe.hit_record.normal = <<0, 4, 3>>
  /\ probe.result.attenuation = probe.mat.albedo
  /\ probe.result.out.direction # vscale(probe.ray.direction, 100)

\* C21 as claimed.  Every material of a constructed scene scatters with an
\* attenuation whose components lie in [0, 1] (1 in the unit of the
\* attenuations), so that a finished Whitted colour is, component by
\* component, no brighter than the colour the last ray of the path was given.
Orig_C21 ==
  (wh.pc # "off" /\ scene.integrator.kind = "Whitted") =>
    /\ \A j \in 1..Len(wh.trail) : \A c \in 1..3 :
         wh.trail[j][c] >= 0 /\ wh.trail[j][c] <= 1
    /\ (wh.pc = "done" /\ wh.terminal = "cutoff") =>
         \A c \in 1..3 : wh.value[c] <= scene.background[c]

\* C22 as claimed.  The attenuation of Dielectric::scatter is the albedo the
\* material was configured with: the first scatter of a path whose primary
\* ray hits a dielectric attenuates by the albedo of that dielectric.
Orig_C22 ==
  (wh.pc # "off" /\ Len(wh.trail) >= 1) =>
    LET c == collision(scene.objects, wh.ray0)
        mat == scene.objects[c.rec.object].mat
    IN  (mat.kind = "Dielectric") => (wh.trail[1] = mat.albedo)

\* the j-th candidate of a rejection loop that starts at the sampler s and
\* draws k values a time, as the claims state it: 2u - 1 in each drawn axis
candidate(s, k, j) ==
  [c \in 1..3 |-> IF c <= k THEN (2 * gen(s.seed, s.pos + (k * (j - 1)) + (c - 1))) - 4
                  ELSE 0]

Orig_C24 ==
  (probe.pc = "done" /\ probe.fn = "sample_unit_disk") =>
    \E n \in 1..5 :
      /\ probe.result.sampler = [probe.sampler EXCEPT !.pos = @ + (2 * n)]
      /\ \A j \in 1..(n - 1) : magnitude2(candidate(probe.sampler, 2, j)) >= 16
      /\ magnitude2(candidate(probe.sampler, 2, n)) < 16
      /\ probe.result.v = candidate(probe.sampler, 2, n)

\* a component the 8-bit range holds: a number of [0, 1]
in_range(x) == ~x.nan /\ x.val >= 0 /\ x.val <= 20

\* C25 as claimed.  An export with width 0 or height 0 returns
\* InvalidDimensions and leaves no file; otherwise a buffer with a component
\* that is negative, NaN or above 1 makes the export return
\* InvalidPixelValues, and it does not abort; and a buffer whose components
\* are all in [0, 1], when the file can be written, is written with every
\* component v as floor(255 v).
Orig_C25 ==
  (probe.pc = "done" /\ probe.fn = "export") =>
    LET e == probe.exporter
        b == probe.buffer
        r == probe.result
        fine == \A j \in 1..Len(b) : \A c \in 1..3 : in_range(b[j][c])
    IN  /\ (e.width = 0 \/ e.height = 0) =>
             (r.outcome = "InvalidDimensions" /\ ~r.file.some)
        /\ (e.width > 0 /\ e.height > 0 /\ ~fine) =>
             (r.outcome = "InvalidPixelValues" /\ ~r.file.some)
        /\ r.outcome # "panic"
        /\ (e.width > 0 /\ e.height > 0 /\ fine /\ probe.writable) =>
             /\ r.outcome = "Ok"
             /\ r.file.some
             /\ \A j \in 1..Len(b) : \A c \in 1..3 :
                  r.file.rec.pixels[j][c] = (255 * b[j][c].val) \div 20

\* the ray has a hit at distance >= ETA on some object of the scene
is_hit(ray) ==
  \E k \in 1..Len(scene.objects) :
    /\ scene.objects[k].hit[ray].some
    /\ scene.objects[k].hit[ray].rec.distance >= ETA

Orig_C28 ==
  (probe.pc = "done" /\ probe.fn = "ProcessedScene::from") =>
    (probe.result.horizontal[1] * probe.height = probe.result.vertical[2] * probe.width)

Orig_C30 ==
  (probe.pc = "done" /\ probe.fn = "Renderer::render") =>
    /\ probe.result.outcome = "Ok"
    /\ probe.result.bar = product(probe.width, probe.height)
    /\ probe.result.capacity = product(probe.width, probe.height)
    /\ probe.result.pixels = product(probe.width, probe.height)
    /\ (probe.width = <<0, 0, 0, 0>> \/ probe.height = <<0, 0, 0, 0>>) =>
         (probe.result.pixels = <<0, 0, 0, 0, 0, 0, 0, 0>>)

====
